---- MODULE Spec2Model ----
(***************************************************************************)
(* Topic Authority Score Checker (src/app.py): the keyword-discovery       *)
(* stage, the SERP analysis stage and the report stage of main(), as a     *)
(* state machine over the Streamlit session state and the position of the  *)
(* running script.                                                         *)
(*                                                                         *)
(* Conventions.                                                            *)
(*  - A text is a sequence of one-character strings, so that lower(),      *)
(*    strip(), split(','), `in` and endswith() are computed.               *)
(*  - Money is counted in micro-dollars (0.01 $ = 10000), CTR in           *)
(*    thousandths (0.30 = 300), traffic in thousandths of a visit.  The    *)
(*    arithmetic is exact; the program computes the same in binary floats. *)
(*  - An optional value (None or a value) is <<>> or <<value>>.             *)
(*  - A Python dict is a sequence of records in insertion order.           *)
(***************************************************************************)
EXTENDS Integers, Sequences, FiniteSets, TLC

None == <<>>

(***************************************************************************)
(* Text helpers: str.lower, str.strip, str.split(','), `in`, str.endswith  *)
(***************************************************************************)
LowerChar(c) == IF c = "A" THEN "a" ELSE IF c = "B" THEN "b" ELSE c

lower(text) == [k \in 1..Len(text) |-> LowerChar(text[k])]

RECURSIVE lstrip(_)
lstrip(text) ==
    IF text # <<>> /\ Head(text) = " " THEN lstrip(Tail(text)) ELSE text

RECURSIVE rstrip(_)
rstrip(text) ==
    IF text # <<>> /\ text[Len(text)] = " "
    THEN rstrip(SubSeq(text, 1, Len(text) - 1))
    ELSE text

strip(text) == rstrip(lstrip(text))

\* text.split(','): the pieces between commas, empty pieces included
RECURSIVE split(_)
split(text) ==
    IF \E k \in 1..Len(text) : text[k] = ","
    THEN LET k == CHOOSE j \in 1..Len(text) :
                      /\ text[j] = ","
                      /\ \A h \in 1..(j - 1) : text[h] # ","
         IN  <<SubSeq(text, 1, k - 1)>> \o split(SubSeq(text, k + 1, Len(text)))
    ELSE <<text>>

\* neg in text
IsSubstring(neg, text) ==
    \E k \in 0..(Len(text) - Len(neg)) : SubSeq(text, k + 1, k + Len(neg)) = neg

\* text.endswith(suffix)
endswith(text, suffix) ==
    /\ Len(suffix) <= Len(text)
    /\ SubSeq(text, Len(text) - Len(suffix) + 1, Len(text)) = suffix

SelectNonEmpty(texts) == SelectSeq(texts, LAMBDA t : t # <<>>)

\* the pieces as split, blank ones kept
ParseListKeepBlank(text) == split(text)

\* [kw.strip() for kw in text.split(',') if kw.strip()]
ParseList(text) ==
    LET parts == split(text)
    IN  SelectNonEmpty([k \in 1..Len(parts) |-> strip(parts[k])])

\* [kw.strip().lower() for kw in text.split(',') if kw.strip()]
ParseListLower(text) ==
    LET parts == ParseList(text)
    IN  [k \in 1..Len(parts) |-> lower(parts[k])]

(***************************************************************************)
(* dict helpers (insertion-ordered, keyed by field "key")                  *)
(***************************************************************************)
HasKey(d, k) == \E j \in 1..Len(d) : d[j].key = k

DictGet(d, k, default) ==
    IF HasKey(d, k)
    THEN d[CHOOSE j \in 1..Len(d) : d[j].key = k].val
    ELSE default

DictPut(d, k, v) ==
    IF HasKey(d, k)
    THEN [j \in 1..Len(d) |-> IF d[j].key = k THEN [key |-> k, val |-> v] ELSE d[j]]
    ELSE Append(d, [key |-> k, val |-> v])

RECURSIVE DictSumOf(_)
DictSumOf(d) == IF d = <<>> THEN 0 ELSE Head(d).val + DictSumOf(Tail(d))

Keys(d) == {d[j].key : j \in 1..Len(d)}

Min(a, b) == IF a <= b THEN a ELSE b

\* math.ceil(a / b) for a >= 0, b > 0
Ceil(a, b) == (a + b - 1) \div b


\* sort_values(key, ascending=False) sorts with the default kind,
\* 'quicksort', which is not a stable sort: the rows come out with their
\* keys non-increasing, rows of equal key in an order that depends on the
\* library build and the length of the frame.  SortOrders is the set of
\* the orders the call can produce, each a sequence of the positions
\* 1..Len(keys) of the unsorted rows.
RECURSIVE OrdersOf(_, _)
OrdersOf(keys, S) ==
    IF S = {} THEN {<<>>}
    ELSE LET first == {j \in S : \A x \in S : keys[x] <= keys[j]}
         IN  UNION {{<<j>> \o t : t \in OrdersOf(keys, S \ {j})} : j \in first}

SortOrders(keys) == OrdersOf(keys, 1..Len(keys))

\* An optional value (a session key that may be absent or None) is <<>> or
\* the one-element sequence <<value>>.
Some(v) == <<v>>
IsNone(o) == o = <<>>
ValueOf(o) == o[1]

(***************************************************************************)
(* Program constants                                                       *)
(***************************************************************************)
\* keywords per keyword-data request (math.ceil(num_keywords_fetch / 700))
KEYWORDS_PER_REQUEST == 700
\* 0.01 $ per keyword-data request, in micro-dollars
KEYWORD_REQUEST_COST == 10000
\* 0.0002 $ per autocomplete request, in micro-dollars
AUTOCOMPLETE_COST == 200
\* 0.0006 $ per keyword at SERP depth 10, in micro-dollars
SERP_BASE_COST == 600
\* the depth the base SERP price is quoted for (serp_depth / 10)
SERP_BASE_DEPTH == 10
\* minimum search volume of a keyword from a volume source (vol >= 10)
MIN_VOLUME == 10
\* keywords per SERP request
batch_size == 50

\* CTR_CURVE in thousandths, positions 1..20
CTR_CURVE == <<300, 150, 100, 60, 40, 30, 25, 20, 15, 10,
               9, 8, 7, 6, 5, 4, 3, 2, 1, 1>>

\* a rank off the curve given the CTR of the last position
CtrGetLastForDeeper(rank) ==
    IF rank \in DOMAIN CTR_CURVE THEN CTR_CURVE[rank] ELSE CTR_CURVE[Len(CTR_CURVE)]

\* CTR_CURVE.get(rank, 0)
CtrGet(rank) == IF rank \in DOMAIN CTR_CURVE THEN CTR_CURVE[rank] ELSE 0

\* options of the "Keywords per source" slider
FetchLimitOptions == {100, 300, 500, 700, 1000}
\* options of the "SERP Depth" slider
SerpDepthOptions == {10, 20, 50, 100}

(***************************************************************************)
(* Cost estimates                                                          *)
(***************************************************************************)
\* keyword_cost of the configuration panel: one request price per
\* keyword-data request of each enabled volume source, one autocomplete
\* price per seed keyword
KeywordCost(kfk, ideas, auto, nfetch, seedText) ==
    (IF kfk THEN Ceil(nfetch, KEYWORDS_PER_REQUEST) * KEYWORD_REQUEST_COST ELSE 0)
  + (IF ideas THEN Ceil(nfetch, KEYWORDS_PER_REQUEST) * KEYWORD_REQUEST_COST ELSE 0)
  + (IF auto THEN AUTOCOMPLETE_COST * Len(ParseList(seedText)) ELSE 0)

\* total_serp_cost = num_keywords_analyze * (0.0006 * (serp_depth / 10));
\* every depth option is a multiple of 10, so the quotient is exact
SerpCost(numAnalyze, depth) ==
    numAnalyze * ((SERP_BASE_COST * depth) \div SERP_BASE_DEPTH)

\* the estimate with the requests rounded down
estimate_total_cost_floor(num_keywords_to_fetch, num_keywords_to_analyze, serp_depth) ==
    LET kw_cost == (num_keywords_to_fetch \div KEYWORDS_PER_REQUEST)
                      * KEYWORD_REQUEST_COST
        serp_cost_per_kw == (SERP_BASE_COST * serp_depth) \div SERP_BASE_DEPTH
        serp_cost == num_keywords_to_analyze * serp_cost_per_kw
    IN  [keyword_cost |-> kw_cost, serp_cost |-> serp_cost,
         serp_cost_per_kw |-> serp_cost_per_kw, total |-> kw_cost + serp_cost]

\* estimate_total_cost: the cost of one keyword fetch and of the SERP
\* analysis, in micro-dollars
estimate_total_cost(num_keywords_to_fetch, num_keywords_to_analyze, serp_depth) ==
    LET keyword_requests == Ceil(num_keywords_to_fetch, KEYWORDS_PER_REQUEST)
        kw_cost == keyword_requests * KEYWORD_REQUEST_COST
        serp_cost_per_kw == (SERP_BASE_COST * serp_depth) \div SERP_BASE_DEPTH
        serp_cost == num_keywords_to_analyze * serp_cost_per_kw
    IN  [keyword_cost |-> kw_cost, serp_cost |-> serp_cost,
         serp_cost_per_kw |-> serp_cost_per_kw, total |-> kw_cost + serp_cost]

(***************************************************************************)
(* Filters                                                                 *)
(***************************************************************************)
\* is_clean without the lower-casing of the text
is_clean_case_sensitive(text, negs) ==
    \A k \in 1..Len(negs) : ~IsSubstring(negs[k], text)

\* is_clean(text): no negative term occurs in the lower-cased text
is_clean(text, negs) ==
    \A k \in 1..Len(negs) : ~IsSubstring(negs[k], lower(text))

\* the domain filter matching any suffix, with no dot before it
is_excluded_any_suffix(domain, negDoms) ==
    \E k \in 1..Len(negDoms) : endswith(domain, negDoms[k])

\* the domain filter of the aggregation loop: exact match or ".nd" suffix;
\* the domain is compared as received
is_excluded(domain, negDoms) ==
    \E k \in 1..Len(negDoms) :
        domain = negDoms[k] \/ endswith(domain, <<".">> \o negDoms[k])

(***************************************************************************)
(* Keyword merge                                                           *)
(***************************************************************************)
\* if vol and vol >= 10 and is_clean(keyword_text); a search_volume of None
\* (null, or absent from the item) is falsy like 0 and is modelled as 0
AcceptVolumeItem(text, vol, negs) ==
    vol # 0 /\ vol >= MIN_VOLUME /\ is_clean(text, negs)

\* the merge without the comparison: the last observation wins
ShouldStoreLast(all, text, vol) == TRUE

\* if keyword_text not in all_keywords or vol > all_keywords[keyword_text]
ShouldStore(all, text, vol) ==
    ~HasKey(all, text) \/ vol > DictGet(all, text, 0)

\* one iteration of the loop over raw_data of a volume source (Keywords for
\* Keywords, Keyword Ideas)
MergeVolumeItem(all, item, negs) ==
    IF /\ AcceptVolumeItem(item.keyword, item.search_volume, negs)
       /\ ShouldStore(all, item.keyword, item.search_volume)
    THEN DictPut(all, item.keyword, item.search_volume)
    ELSE all

\* if kw_text and kw_text not in all_keywords and is_clean(kw_text)
AcceptAutocomplete(all, text, negs) ==
    text # <<>> /\ ~HasKey(all, text) /\ is_clean(text, negs)

\* one iteration of the loop over autocomplete_keywords: a placeholder of
\* volume 0
MergeAutocomplete(all, text, negs) ==
    IF AcceptAutocomplete(all, text, negs) THEN DictPut(all, text, 0) ELSE all

\* the row filter of the keywords dataframe
KeepRow(v, auto) == v >= MIN_VOLUME \/ (v = 0 /\ auto)

\* the dataframe in the order of the dict, never sorted
KeywordsFrameUnsorted(all, auto) ==
    LET kept == SelectSeq(all, LAMBDA e : KeepRow(e.val, auto))
    IN  {[k \in 1..Len(kept) |->
            [keyword |-> kept[k].key, search_volume |-> kept[k].val]]}

\* pd.DataFrame([... if v >= 10 or (v == 0 and use_autocomplete)])
\*   .sort_values('search_volume', ascending=False): the frames the call can
\* produce
KeywordsFrame(all, auto) ==
    LET kept == SelectSeq(all, LAMBDA e : KeepRow(e.val, auto))
        rows == [k \in 1..Len(kept) |->
                    [keyword |-> kept[k].key, search_volume |-> kept[k].val]]
    IN  {[k \in 1..Len(rows) |-> rows[order[k]]] :
            order \in SortOrders([k \in 1..Len(rows) |-> rows[k].search_volume])}

(***************************************************************************)
(* SERP analysis                                                           *)
(***************************************************************************)
\* the "Keywords to Analyze" slider: min_value=10, max_value=total,
\* value=min(100, total), step=10
SLIDER_MIN == 10
SLIDER_STEP == 10
SLIDER_DEFAULT == 100

\* The values the slider can hold for a frame of `total` keywords: its
\* initial value, or a step of the grid from min_value up to max_value; a
\* min_value above max_value is lowered to max_value by the widget.
NumAnalyzeChoices(total) ==
    IF total < SLIDER_MIN THEN {total}
    ELSE {n \in SLIDER_MIN..total : (n - SLIDER_MIN) % SLIDER_STEP = 0}
         \cup {Min(SLIDER_DEFAULT, total)}

\* the check against the default limit in place of the stored one
SerpBlockedByDefault(cost, mc) == cost > 5000000

\* if total_serp_cost > max_cost: the analysis is blocked
SerpBlocked(cost, mc) == cost > mc

\* df.head(n)
head(df, n) == SubSeq(df, 1, Min(n, Len(df)))

\* dict(zip(target_df['keyword'], target_df['search_volume'])): one entry
\* per keyword text, at the place of its first row, with the volume of its
\* last row
VolumeMap(df) ==
    LET n == Len(df)
        IsFirst(j) == \A h \in 1..(j - 1) : df[h].keyword # df[j].keyword
        LastRow(k) == CHOOSE j \in 1..n :
                          /\ df[j].keyword = k
                          /\ \A h \in (j + 1)..n : df[h].keyword # k
        firsts == SelectSeq([j \in 1..n |-> j], IsFirst)
    IN  [m \in 1..Len(firsts) |->
            [key |-> df[firsts[m]].keyword,
             val |-> df[LastRow(df[firsts[m]].keyword)].search_volume]]

\* keywords_list[i:i+batch_size] (i counts from 0)
Batch(list, start) == SubSeq(list, start + 1, Min(start + batch_size, Len(list)))

\* an item is aggregated when it is organic and its domain is not excluded
Eligible(item, negDoms) ==
    item.type = "organic" /\ ~is_excluded(item.domain, negDoms)

\* traffic = volume * CTR_CURVE.get(rank, 0)
Traffic(vol, rank) == vol * CtrGet(rank)

\* the accumulation, overwriting instead of adding
AddTrafficOverwrite(d, domain, traffic) == DictPut(d, domain, traffic)

\* all_domain_traffic[domain] = all_domain_traffic.get(domain, 0) + traffic
AddTraffic(d, domain, traffic) ==
    DictPut(d, domain, DictGet(d, domain, 0) + traffic)

\* the row appended to detailed_serp_data (url and title, which are copied
\* from the item and never read, are left out)
DetailRow(kw, vol, item) ==
    [keyword |-> kw, search_volume |-> vol, domain |-> item.domain,
     position |-> item.rank_group, ctr |-> CtrGet(item.rank_group),
     estimated_traffic |-> Traffic(vol, item.rank_group)]

\* a row only for an item that brings traffic
AppendDetailIfTraffic(rows, kw, vol, item) ==
    IF Traffic(vol, item.rank_group) > 0
    THEN Append(rows, DetailRow(kw, vol, item)) ELSE rows

\* detailed_serp_data.append({...}), whatever the traffic
AppendDetail(rows, kw, vol, item) == Append(rows, DetailRow(kw, vol, item))

\* One pass of the item loop over a sequence of (keyword, item) pairs, from
\* empty accumulators: volume_map.get(keyword, 0), the organic and domain
\* filters, the detail row, the traffic of the domain and the total.
RECURSIVE Aggregate(_, _, _, _)
Aggregate(entries, volumes, negDoms, acc) ==
    IF entries = <<>> THEN acc
    ELSE LET p == Head(entries)
             vol == DictGet(volumes, p.keyword, 0)
             t == Traffic(vol, p.item.rank_group)
         IN  Aggregate(Tail(entries), volumes, negDoms,
                 IF Eligible(p.item, negDoms)
                 THEN [traffic |-> AddTraffic(acc.traffic, p.item.domain, t),
                       total |-> acc.total + t,
                       rows |-> AppendDetail(acc.rows, p.keyword, vol, p.item)]
                 ELSE acc)

(***************************************************************************)
(* Report                                                                  *)
(***************************************************************************)
\* the share as a fraction of 1, not of 100
ShareAsFraction(traffic, total) == [num |-> traffic, den |-> total]

\* (Estimated Traffic / total_traffic) * 100 as a fraction num/den.  pandas
\* divides by a zero total without raising: 0/0 is NaN and x/0 is inf, the
\* fractions with den = 0 here.
ShareOfVoice(traffic, total) == [num |-> 100 * traffic, den |-> total]

IsNaN(share) == share.den = 0 /\ share.num = 0

\* results_df: one row per domain of serp_results, in an order that
\* sort_values('Estimated Traffic', ascending=False) produced, ranked 1..n
ResultsFrame(traffic_data, total, order) ==
    [k \in 1..Len(order) |->
        [Rank |-> k, Domain |-> traffic_data[order[k]].key,
         EstimatedTraffic |-> traffic_data[order[k]].val,
         Share |-> ShareOfVoice(traffic_data[order[k]].val, total)]]

\* if st.session_state.get('serp_results'): the Results section is rendered
\* only for a non-empty serp_results.  The tables a run can render.
RenderResults(serpResults, total) ==
    IF ~IsNone(serpResults) /\ ValueOf(serpResults) # <<>>
    THEN LET traffic_data == ValueOf(serpResults)
         IN  {ResultsFrame(traffic_data, ValueOf(total), order) :
                 order \in SortOrders([k \in 1..Len(traffic_data) |->
                                          traffic_data[k].val])}
    ELSE {<<>>}

\* results_df.head(n)['Share of Voice (%)'].sum() as a fraction of the
\* common denominator of the shares; the sum skips NaN shares, so a table of
\* NaN shares sums to 0
RECURSIVE SumNum(_)
SumNum(rows) ==
    IF rows = <<>> THEN 0 ELSE Head(rows).Share.num + SumNum(Tail(rows))

TopShare(rows, n) ==
    IF rows = <<>> \/ rows[1].Share.den = 0
    THEN [num |-> 0, den |-> 1]
    ELSE [num |-> SumNum(head(rows, n)), den |-> rows[1].Share.den]

\* the classification with the bounds included in the upper category
MarketTypeAtLeast(top3) ==
    IF top3.num >= 75 * top3.den THEN "Monopolistic"
    ELSE IF top3.num >= 50 * top3.den THEN "Concentrated"
    ELSE "Fragmented"

\* if top3 > 75 ... elif top3 > 50 ... else
MarketTypeOf(top3) ==
    IF top3.num > 75 * top3.den THEN "Monopolistic"
    ELSE IF top3.num > 50 * top3.den THEN "Concentrated"
    ELSE "Fragmented"

(***************************************************************************)
(* Bounds and input universes                                              *)
(***************************************************************************)
\* items read from one keyword-discovery response
MaxResp == 2

\* keyword texts a provider may return: one that contains the negative term
\* "a" in upper case only, one that does not contain it
KwTexts == {<<"A", "b">>, <<"b">>}
KwVolumes == {5, 10, 20}
KwItems == [keyword : KwTexts, search_volume : KwVolumes]

\* contents of the "Seed Keywords" text area: "", "a", "a, b"
SeedTexts == {<<>>, <<"a">>, <<"a", ",", " ", "b">>}
\* contents of the "Negative Keywords" text area: "", " ,A"
NegKeywordTexts == {<<>>, <<" ", ",", "A">>}
\* values of the "Max Cost Limit ($)" input: 0, 0.0006, 0.01, 0.02, 5.0
MaxCostValues == {0, 600, 10000, 20000, 5000000}
\* the default Max Cost Limit, 5.0 $
DefaultMaxCost == 5000000
\* the default "Keywords per source"
DefaultFetchLimit == 700

(***************************************************************************)
(* State                                                                   *)
(***************************************************************************)
VARIABLES
    \* the "API Login" and "API Password" inputs of the sidebar
    dfs_user, dfs_pass,
    \* the spend-confirmation checkbox (key "confirm_serp"): its value in the
    \* last run, FALSE when that run did not render it
    confirm_serp,
    \* st.session_state
    ss_config, ss_keywords_df, ss_serp_results, ss_total_traffic,
    ss_detailed_serp_data,
    \* widget values of the running script
    seed_keyword, negative_keywords, negative_domains,
    use_keywords_for_keywords, use_keyword_ideas, use_autocomplete,
    num_keywords_fetch, max_cost, num_keywords_analyze, serp_depth,
    \* locals of main()
    keyword_cost, seed_keywords, negatives, all_keywords, idx, items_read,
    total_serp_cost, keywords_list, volume_map, neg_doms,
    all_domain_traffic, total_market_traffic, detailed_serp_data, i,
    tasks_read, keyword, volume,
    \* the rendered Results table, the script's position, the exception that
    \* ended the last run ("" when none), the button whose press started the
    \* last run ("" when none)
    results_df, pc, raised, button,
    \* the dict last returned by estimate_total_cost, with its arguments
    estimate,
    \* history: provider calls of the current run, the keyword texts the
    \* providers returned and the observations accepted in the current fetch,
    \* SERP items read by the current analysis
    provider_calls, offered, observations, processed

authVars == <<dfs_user, dfs_pass>>
sessVars == <<ss_config, ss_keywords_df, ss_serp_results, ss_total_traffic,
              ss_detailed_serp_data>>
kwWidgets == <<seed_keyword, negative_keywords, use_keywords_for_keywords,
               use_keyword_ideas, use_autocomplete, num_keywords_fetch>>
serpWidgets == <<negative_domains, num_keywords_analyze, serp_depth>>
kwLocals == <<keyword_cost, seed_keywords, negatives, all_keywords, idx,
              items_read>>
serpLocals == <<total_serp_cost, keywords_list, volume_map, neg_doms,
                all_domain_traffic, total_market_traffic,
                detailed_serp_data, i, tasks_read, keyword, volume>>
vars == <<authVars, confirm_serp, sessVars, kwWidgets, serpWidgets, max_cost, kwLocals, serpLocals,
          results_df, pc, raised, button, estimate, provider_calls, offered,
          observations, processed>>

\* get_auth: None unless both credentials are non-empty
get_auth_either(username, password) ==
    IF username = <<>> /\ password = <<>> THEN None
    ELSE Some(<<username, password>>)

get_auth(username, password) ==
    IF username = <<>> \/ password = <<>> THEN None
    ELSE Some(<<username, password>>)

\* auth of the running script
auth == get_auth(dfs_user, dfs_pass)

\* The script idle, nothing rendered, the widgets of the page at rest.
InitPage ==
    /\ seed_keyword = <<>> /\ negative_keywords = <<>> /\ negative_domains = <<>>
    /\ use_keywords_for_keywords = TRUE /\ use_keyword_ideas = FALSE
    /\ use_autocomplete = FALSE
    /\ num_keywords_fetch = DefaultFetchLimit /\ max_cost = DefaultMaxCost
    /\ num_keywords_analyze = 0 /\ serp_depth = SERP_BASE_DEPTH
    /\ keyword_cost = 0 /\ seed_keywords = <<>> /\ negatives = <<>>
    /\ all_keywords = <<>> /\ idx = 0 /\ items_read = 0
    /\ total_serp_cost = 0 /\ keywords_list = <<>> /\ volume_map = <<>>
    /\ neg_doms = <<>> /\ all_domain_traffic = <<>>
    /\ total_market_traffic = 0 /\ detailed_serp_data = <<>> /\ i = 0
    /\ tasks_read = 0 /\ keyword = <<>> /\ volume = 0
    /\ results_df = <<>> /\ pc = "idle" /\ raised = "" /\ button = ""
    /\ estimate = None
    /\ provider_calls = <<>> /\ offered = {} /\ observations = {}
    /\ processed = <<>>

\* The page at rest in a session whose credentials have been entered.
InitScript ==
    /\ dfs_user = <<"u">> /\ dfs_pass = <<"p">>
    /\ InitPage

\* Everything but the stored keywords: no config, no results, no
\* confirmation, the script idle.
InitRest ==
    /\ ss_config = None /\ ss_serp_results = None
    /\ ss_total_traffic = None /\ ss_detailed_serp_data = None
    /\ confirm_serp = FALSE
    /\ InitScript

\* costs = {'keyword_cost': keyword_cost, 'total': keyword_cost}: the
\* estimate of the configuration panel, which "Total Cost" displays and the
\* BLOCKED status compares with max_cost
costs == [keyword_cost |-> keyword_cost, total |-> keyword_cost]

\* the Market Type metric of the rendered Results section ("" when the
\* section is not rendered)
market_type ==
    IF results_df = <<>> THEN "" ELSE MarketTypeOf(TopShare(results_df, 3))

\* A fresh session: nothing stored.
Init == ss_keywords_df = None /\ InitRest

(***************************************************************************)
(* Keyword research: the "Fetch Keywords" handler                          *)
(***************************************************************************)
\* if not seed_keywords ... elif not any([...]): an error is shown and the
\* handler does nothing else
InvalidConfiguration(seeds, kfk, ideas, auto) ==
    seeds = <<>> \/ ~(kfk \/ ideas \/ auto)

\* The script runs from the top with the Fetch Keywords button pressed: the
\* cost panel, the config stored in the session, the parsing and the
\* validation.  With no seed or no source it reports an error and the run
\* goes on to render the rest of the page; nothing compares keyword_cost
\* with max_cost before the loop is entered.
ClickFetchKeywords(seed, negkw, kfk, ideas, auto, nfetch, mc) ==
    /\ pc = "idle"
    /\ ~IsNone(auth)
    /\ seed_keyword' = seed /\ negative_keywords' = negkw
    /\ use_keywords_for_keywords' = kfk /\ use_keyword_ideas' = ideas
    /\ use_autocomplete' = auto
    /\ num_keywords_fetch' = nfetch /\ max_cost' = mc
    /\ keyword_cost' = KeywordCost(kfk, ideas, auto, nfetch, seed)
    /\ ss_config' = Some([max_cost |-> mc, fetch_limit |-> nfetch])
    /\ seed_keywords' = ParseList(seed)
    /\ negatives' = ParseListLower(negkw)
    /\ provider_calls' = <<>> /\ offered' = {} /\ observations' = {}
    /\ raised' = "" /\ all_keywords' = <<>> /\ items_read' = 0
    /\ button' = "fetch_keywords"
    /\ UNCHANGED <<estimate, authVars, confirm_serp>>
    /\ IF InvalidConfiguration(ParseList(seed), kfk, ideas, auto)
       THEN /\ pc' = "idle" /\ idx' = 0
            /\ results_df' \in RenderResults(ss_serp_results, ss_total_traffic)
       ELSE /\ pc' = "kfk" /\ idx' = 1
            /\ UNCHANGED results_df
    /\ UNCHANGED <<ss_keywords_df, ss_serp_results, ss_total_traffic,
                   ss_detailed_serp_data, serpWidgets, serpLocals, processed>>

\* a provider call for the current seed, recorded with its outcome: the
\* result list of the response, or [] after an exception that the fetch
\* function caught (network, HTTP status, authentication, response shape)
Call(fn, ok) ==
    Append(provider_calls,
           [fn |-> fn, arg |-> seed_keywords[idx],
            response |-> IF ok THEN "result" ELSE "error"])

\* the outcomes of a discovery call: TRUE a response, FALSE a caught exception
CallOutcomes == BOOLEAN

\* the exception of a failed call leaves the handler
AfterCallAbort(ok, items_pc, next_pc) == IF ok THEN items_pc ELSE "idle"

\* where the handler goes after a call: the exception of a failed call is
\* caught in the fetch function, which returns [], so that "if raw_data" is
\* false and the next source follows
AfterCall(ok, items_pc, next_pc) == IF ok THEN items_pc ELSE next_pc

kwFrame == <<sessVars, kwWidgets, serpWidgets, max_cost, keyword_cost,
             seed_keywords, negatives, idx, serpLocals, results_df, raised,
             button, estimate, authVars, confirm_serp, processed>>

\* Keywords for Keywords for the current seed: skipped when the source is
\* off.  The items of raw_data are then read one by one; a failed call
\* returns [], "if raw_data" is false and the next source follows.
FetchKeywordsForKeywords(ok) ==
    /\ pc = "kfk"
    /\ IF use_keywords_for_keywords
       THEN /\ provider_calls' = Call("fetch_keywords_data", ok)
            /\ pc' = AfterCall(ok, "kfk_items", "ideas")
       ELSE /\ pc' = "ideas" /\ UNCHANGED provider_calls
    /\ items_read' = 0
    /\ UNCHANGED <<kwFrame, all_keywords, offered, observations>>

\* Keyword Ideas for the current seed, normalised to the same item shape.
FetchKeywordIdeas(ok) ==
    /\ pc = "ideas"
    /\ IF use_keyword_ideas
       THEN /\ provider_calls' = Call("fetch_keyword_ideas", ok)
            /\ pc' = AfterCall(ok, "ideas_items", "auto")
       ELSE /\ pc' = "auto" /\ UNCHANGED provider_calls
    /\ items_read' = 0
    /\ UNCHANGED <<kwFrame, all_keywords, offered, observations>>

\* for item in raw_data: one item of a volume source is read and merged
ReadVolumeItem(item) ==
    /\ pc \in {"kfk_items", "ideas_items"}
    /\ items_read < MaxResp
    /\ items_read' = items_read + 1
    /\ all_keywords' = MergeVolumeItem(all_keywords, item, negatives)
    /\ offered' = offered \cup {item.keyword}
    /\ observations' = observations \cup
          (IF AcceptVolumeItem(item.keyword, item.search_volume, negatives)
           THEN {item} ELSE {})
    /\ UNCHANGED <<kwFrame, pc, provider_calls>>

\* raw_data is exhausted: on to the next source
EndVolumeItems ==
    /\ pc \in {"kfk_items", "ideas_items"}
    /\ pc' = IF pc = "kfk_items" THEN "ideas" ELSE "auto"
    /\ items_read' = 0
    /\ UNCHANGED <<kwFrame, all_keywords, provider_calls, offered, observations>>

\* Autocomplete for the current seed: skipped when the source is off.
FetchAutocomplete(ok) ==
    /\ pc = "auto"
    /\ IF use_autocomplete
       THEN /\ provider_calls' = Call("fetch_autocomplete", ok)
            /\ pc' = AfterCall(ok, "auto_items", "seed_done")
       ELSE /\ pc' = "seed_done" /\ UNCHANGED provider_calls
    /\ items_read' = 0
    /\ UNCHANGED <<kwFrame, all_keywords, offered, observations>>

\* for kw_text in autocomplete_keywords: one suggestion is read and merged
ReadAutocompleteItem(text) ==
    /\ pc = "auto_items"
    /\ items_read < MaxResp
    /\ items_read' = items_read + 1
    /\ all_keywords' = MergeAutocomplete(all_keywords, text, negatives)
    /\ offered' = offered \cup {text}
    /\ observations' = observations \cup
          (IF text # <<>> /\ is_clean(text, negatives)
           THEN {[keyword |-> text, search_volume |-> 0]} ELSE {})
    /\ UNCHANGED <<kwFrame, pc, provider_calls>>

EndAutocompleteItems ==
    /\ pc = "auto_items"
    /\ pc' = "seed_done"
    /\ items_read' = 0
    /\ UNCHANGED <<kwFrame, all_keywords, provider_calls, offered, observations>>

\* the results of the previous analysis stay with the new keywords
SerpResultsKept(previous) == previous

\* st.session_state['serp_results'] = None  # Reset
SerpResultsAfterFetch(previous) == None

\* The end of the loop body: the next seed, or the end of the handler, where
\* a non-empty all_keywords replaces keywords_df and resets serp_results and
\* an empty one changes nothing; then the rest of the page is rendered.
NextSeedOrStore ==
    /\ pc = "seed_done"
    /\ IF idx < Len(seed_keywords)
       THEN /\ idx' = idx + 1 /\ pc' = "kfk"
            /\ UNCHANGED <<ss_keywords_df, ss_serp_results, results_df>>
       ELSE /\ pc' = "idle" /\ UNCHANGED idx
            /\ IF all_keywords # <<>>
               THEN /\ \E df \in KeywordsFrame(all_keywords, use_autocomplete) :
                          ss_keywords_df' = Some(df)
                    /\ ss_serp_results' = SerpResultsAfterFetch(ss_serp_results)
               ELSE UNCHANGED <<ss_keywords_df, ss_serp_results>>
            /\ results_df' \in RenderResults(ss_serp_results', ss_total_traffic)
    /\ UNCHANGED <<ss_config, ss_total_traffic, ss_detailed_serp_data,
                   kwWidgets, serpWidgets, max_cost, keyword_cost,
                   seed_keywords, negatives, all_keywords, items_read,
                   serpLocals, raised, button, estimate, authVars,
                   confirm_serp, provider_calls, offered,
                   observations, processed>>

\* the steps of the Fetch Keywords handler after the click
KeywordSteps(Items, Texts, Outcomes) ==
    \/ \E ok \in Outcomes : FetchKeywordsForKeywords(ok)
    \/ \E ok \in Outcomes : FetchKeywordIdeas(ok)
    \/ \E item \in Items : ReadVolumeItem(item)
    \/ EndVolumeItems
    \/ \E ok \in Outcomes : FetchAutocomplete(ok)
    \/ \E text \in Texts : ReadAutocompleteItem(text)
    \/ EndAutocompleteItems
    \/ NextSeedOrStore

\* Keyword research with the cost widgets at their defaults
NextKw ==
    \/ \E seed \in SeedTexts, negkw \in NegKeywordTexts,
          kfk \in BOOLEAN, ideas \in BOOLEAN, auto \in BOOLEAN :
          ClickFetchKeywords(seed, negkw, kfk, ideas, auto,
                             DefaultFetchLimit, DefaultMaxCost)
    \/ KeywordSteps(KwItems, KwTexts \cup {<<>>}, {TRUE})

SpecKw == Init /\ [][NextKw]_vars

\* Keyword research over every value of the cost widgets, the providers
\* returning one keyword
NextKwCost ==
    \/ \E seed \in SeedTexts, kfk \in BOOLEAN, ideas \in BOOLEAN,
          auto \in BOOLEAN, nfetch \in FetchLimitOptions, mc \in MaxCostValues :
          ClickFetchKeywords(seed, <<>>, kfk, ideas, auto, nfetch, mc)
    \/ KeywordSteps({[keyword |-> <<"b">>, search_volume |-> MIN_VOLUME]},
                    {<<"b">>}, {TRUE})

SpecKwCost == Init /\ [][NextKwCost]_vars

\* contents of the "Seed Keywords" text area in the runs with failing
\* providers: "a", "a, b"
FailSeedTexts == {<<"a">>, <<"a", ",", " ", "b">>}
\* what the providers return when they answer
FailKwItems ==
    {[keyword |-> <<"b">>, search_volume |-> MIN_VOLUME],
     [keyword |-> <<"A", "b">>, search_volume |-> 2 * MIN_VOLUME]}

\* Keyword research in which any discovery call may fail
NextKwFail ==
    \/ \E seed \in FailSeedTexts,
          kfk \in BOOLEAN, ideas \in BOOLEAN, auto \in BOOLEAN :
          ClickFetchKeywords(seed, <<>>, kfk, ideas, auto,
                             DefaultFetchLimit, DefaultMaxCost)
    \/ KeywordSteps(FailKwItems, {<<"b">>}, CallOutcomes)

SpecKwFail == Init /\ [][NextKwFail]_vars

(***************************************************************************)
(* Claims about keyword research                                           *)
(***************************************************************************)
DiscoveryFns == {"fetch_keywords_data", "fetch_keyword_ideas", "fetch_autocomplete"}

DiscoveryCalled ==
    \E k \in 1..Len(provider_calls) : provider_calls[k].fn \in DiscoveryFns

\* C1: no keyword-discovery call is issued in a run whose estimated
\* keyword-fetch cost strictly exceeds the max cost limit of that run.
C1_DiscoveryBlockedOverBudget ==
    DiscoveryCalled => keyword_cost <= max_cost

SetMax(S) == CHOOSE m \in S : \A x \in S : x <= m

ObservedVolumes(text) ==
    {o.search_volume : o \in {x \in observations : x.keyword = text}}

\* C3: every keyword of the merged set carries the maximum volume among the
\* accepted observations of its text, every accepted observation's keyword
\* is in the merged set, and the frame stored after the fetch carries the
\* same volumes.  The observations are a set: the order of seeds and sources
\* plays no part.
C3_MaxMerge ==
    /\ \A k \in 1..Len(all_keywords) :
          /\ ObservedVolumes(all_keywords[k].key) # {}
          /\ all_keywords[k].val = SetMax(ObservedVolumes(all_keywords[k].key))
    /\ \A o \in observations : HasKey(all_keywords, o.keyword)
    /\ (pc = "idle" /\ all_keywords # <<>>) =>
          /\ ~IsNone(ss_keywords_df)
          /\ LET df == ValueOf(ss_keywords_df)
             IN  /\ {df[k].keyword : k \in 1..Len(df)} = Keys(all_keywords)
                 /\ \A k \in 1..Len(df) :
                       df[k].search_volume = SetMax(ObservedVolumes(df[k].keyword))

\* a finished fetch over two seeds in which one keyword was observed as an
\* autocomplete placeholder and with two different volumes
C3_Witness ==
    /\ pc = "idle" /\ Len(seed_keywords) = 2
    /\ \E k \in 1..Len(all_keywords) :
          /\ ObservedVolumes(all_keywords[k].key) = {0, 10, 20}
          /\ all_keywords[k].val = 20

\* C4: no keyword whose lower-cased text contains a negative term is in the
\* merged keyword set, nor in the frame stored from it.
C4_NegativeKeywordsFiltered ==
    LET Dirty(text) ==
            \E n \in 1..Len(negatives) : IsSubstring(negatives[n], lower(text))
    IN  /\ \A k \in 1..Len(all_keywords) : ~Dirty(all_keywords[k].key)
        /\ (pc = "idle" /\ all_keywords # <<>>) =>
              \A k \in 1..Len(ValueOf(ss_keywords_df)) :
                  ~Dirty(ValueOf(ss_keywords_df)[k].keyword)

\* a finished fetch in which autocomplete and a volume source were called, a
\* keyword containing a negative term only in upper case was returned, and
\* other keywords were stored
C4_Witness ==
    /\ pc = "idle" /\ all_keywords # <<>> /\ negatives = << <<"a">> >>
    /\ <<"A", "b">> \in offered
    /\ \E k \in 1..Len(provider_calls) : provider_calls[k].fn = "fetch_autocomplete"
    /\ \E k \in 1..Len(provider_calls) : provider_calls[k].fn = "fetch_keywords_data"

(***************************************************************************)
(* SERP analysis: the "Run SERP Analysis" handler                          *)
(***************************************************************************)
\* SERP items read in one analysis, tasks read from one response
MaxItems == 2
MaxTasks == 1

\* domains a SERP item may name: a negative domain, a subdomain of it, a
\* domain that only ends with its letters, the negative domain in upper case
SerpDomains == {<<"a">>, <<"b", ".", "a">>, <<"b", "a">>, <<"A">>}
\* rank_group values: two positions of the CTR curve and one beyond it
SerpRanks == {2, 3, 21}
OrganicItem(domain, rank) ==
    [type |-> "organic", domain |-> domain, rank_group |-> rank]
\* the items a response may carry: every domain at rank 2, two domains at
\* the other ranks, and an item that is not organic
SerpItems ==
    {OrganicItem(d, 2) : d \in SerpDomains}
    \cup {OrganicItem(<<"b", "a">>, 3), OrganicItem(<<"A">>, 3),
          OrganicItem(<<"A">>, 21)}
    \cup {[type |-> "paid", domain |-> <<"b", "a">>, rank_group |-> 2]}
\* contents of the "Negative Domains" text area: "", " A,"
NegDomainTexts == {<<>>, <<" ", "A", ",">>}
\* a keyword the provider names that is not in the volume map
UnknownKeyword == <<"z">>

\* the decimal digits of n
RECURSIVE Digits(_)
Digits(n) ==
    LET d == <<"0", "1", "2", "3", "4", "5", "6", "7", "8", "9">>[(n % 10) + 1]
    IN  IF n < 10 THEN <<d>> ELSE Digits(n \div 10) \o <<d>>

\* a stored keywords frame of n keywords k1..kn, sorted by volume
SerpFrame(n) ==
    [j \in 1..n |-> [keyword |-> <<"k">> \o Digits(j),
                     search_volume |-> IF j = 1 THEN 2 * MIN_VOLUME ELSE MIN_VOLUME]]

\* sizes of the stored frame: one batch, two batches
FrameSizes == {2, batch_size + 1}

\* A session in which a keyword fetch has stored a frame.
InitSerp ==
    /\ \E n \in FrameSizes : ss_keywords_df = Some(SerpFrame(n))
    /\ InitRest

\* The script runs from the top with the Run SERP Analysis button pressed.
\* The button exists only when a frame is stored and the SERP cost of this
\* run's slider values does not exceed the max_cost just stored in config,
\* and it is enabled only with the confirmation checked.  The handler
\* prepares the keyword list, the volume map and the negative domains and
\* enters the batch loop.
ClickRunSerp(negdom, n, depth, mc, confirm) ==
    /\ pc = "idle"
    /\ ~IsNone(auth)
    /\ ~IsNone(ss_keywords_df)
    /\ n \in NumAnalyzeChoices(Len(ValueOf(ss_keywords_df)))
    /\ ss_config' = Some([max_cost |-> mc, fetch_limit |-> num_keywords_fetch])
    /\ ~SerpBlocked(SerpCost(n, depth), ValueOf(ss_config').max_cost)
    /\ confirm /\ confirm_serp' = confirm
    /\ negative_domains' = negdom /\ num_keywords_analyze' = n
    /\ serp_depth' = depth /\ max_cost' = mc
    /\ total_serp_cost' = SerpCost(n, depth)
    /\ LET target_df == head(ValueOf(ss_keywords_df), n)
       IN  /\ keywords_list' = [k \in 1..Len(target_df) |-> target_df[k].keyword]
           /\ volume_map' = VolumeMap(target_df)
    /\ neg_doms' = ParseListLower(negdom)
    /\ all_domain_traffic' = <<>> /\ total_market_traffic' = 0
    /\ detailed_serp_data' = <<>> /\ i' = 0
    /\ tasks_read' = 0 /\ items_read' = 0 /\ keyword' = <<>> /\ volume' = 0
    /\ pc' = "serp_loop" /\ raised' = "" /\ button' = "run_serp_analysis"
    /\ UNCHANGED <<estimate, authVars>>
    /\ provider_calls' = <<>> /\ processed' = <<>>
    /\ UNCHANGED <<ss_keywords_df, ss_serp_results, ss_total_traffic,
                   ss_detailed_serp_data, kwWidgets, keyword_cost,
                   seed_keywords, negatives, all_keywords, idx, results_df,
                   offered, observations>>

\* The script runs from the top with a frame stored and no analysis
\* started: the SERP cost exceeds the stored max_cost, so "Analysis Blocked"
\* is shown in place of the checkbox and the button, or the confirmation is
\* not checked and the button is disabled.  No provider call is made and
\* the Results section renders what the session holds.
NoRunSerp(negdom, n, depth, mc, confirm) ==
    /\ pc = "idle"
    /\ ~IsNone(auth)
    /\ ~IsNone(ss_keywords_df)
    /\ n \in NumAnalyzeChoices(Len(ValueOf(ss_keywords_df)))
    /\ ss_config' = Some([max_cost |-> mc, fetch_limit |-> num_keywords_fetch])
    /\ SerpBlocked(SerpCost(n, depth), ValueOf(ss_config').max_cost) \/ ~confirm
    /\ confirm_serp' =
          (confirm /\ ~SerpBlocked(SerpCost(n, depth), ValueOf(ss_config').max_cost))
    /\ negative_domains' = negdom /\ num_keywords_analyze' = n
    /\ serp_depth' = depth /\ max_cost' = mc
    /\ total_serp_cost' = SerpCost(n, depth)
    /\ keywords_list' = <<>> /\ volume_map' = <<>> /\ neg_doms' = <<>>
    /\ all_domain_traffic' = <<>> /\ total_market_traffic' = 0
    /\ detailed_serp_data' = <<>> /\ i' = 0
    /\ tasks_read' = 0 /\ items_read' = 0 /\ keyword' = <<>> /\ volume' = 0
    /\ raised' = "" /\ provider_calls' = <<>> /\ processed' = <<>>
    /\ button' = "" /\ UNCHANGED <<estimate, authVars>>
    /\ results_df' \in RenderResults(ss_serp_results, ss_total_traffic)
    /\ UNCHANGED <<ss_keywords_df, ss_serp_results, ss_total_traffic,
                   ss_detailed_serp_data, kwWidgets, keyword_cost,
                   seed_keywords, negatives, all_keywords, idx, pc, offered,
                   observations>>

serpFrame == <<sessVars, kwWidgets, serpWidgets, max_cost, keyword_cost,
               seed_keywords, negatives, all_keywords, idx, total_serp_cost,
               keywords_list, volume_map, neg_doms, button, estimate,
               authVars, confirm_serp, offered,
               observations>>

\* an exception leaves main(): the run ends, the accumulators are lost with
\* the other locals, nothing is stored and the Results section is not
\* reached
Raise(exc) ==
    /\ raised' = exc /\ pc' = "idle" /\ results_df' = <<>>
    /\ all_domain_traffic' = <<>> /\ total_market_traffic' = 0
    /\ detailed_serp_data' = <<>> /\ i' = 0 /\ tasks_read' = 0
    /\ keyword' = <<>> /\ volume' = 0 /\ processed' = <<>>
    /\ UNCHANGED <<serpFrame, items_read>>

\* the end of one iteration of the batch loop: progress, sleep, next offset
NextBatch ==
    /\ i' = i + batch_size /\ pc' = "serp_loop"
    /\ tasks_read' = 0 /\ items_read' = 0

\* One batch is sent.  fetch_serp_batch returns None on a network or HTTP
\* error ("none"); otherwise the parsed body, which may lack 'tasks'
\* ("no_tasks"), carry 'tasks': null ("tasks_null") or a list of tasks.
\* `if serp_data and 'tasks' in serp_data` skips the first two; iterating a
\* null tasks value raises TypeError.
FetchSerpBatch(shape) ==
    /\ pc = "serp_loop" /\ i < Len(keywords_list)
    /\ provider_calls' = Append(provider_calls,
          [fn |-> "fetch_serp_batch", arg |-> Batch(keywords_list, i),
           response |-> shape])
    /\ CASE shape \in {"none", "no_tasks"} ->
              /\ NextBatch
              /\ UNCHANGED <<serpFrame, all_domain_traffic, total_market_traffic,
                             detailed_serp_data, keyword, volume, results_df,
                             raised, processed>>
         [] shape = "tasks_null" -> Raise("TypeError: tasks")
         [] shape = "tasks" ->
              /\ pc' = "serp_tasks" /\ tasks_read' = 0
              /\ UNCHANGED <<serpFrame, all_domain_traffic, total_market_traffic,
                             detailed_serp_data, i, items_read, keyword, volume,
                             results_df, raised, processed>>

\* for task in serp_data['tasks']: one task is read.  task['result'] raises
\* KeyError when the task has no 'result' key ("no_result_key"); a null or
\* empty result is skipped ("result_empty"); otherwise result[0] names a
\* keyword and result['items'] is missing (KeyError), null (TypeError on
\* iteration) or a list.
ReadTask(shape, kw) ==
    /\ pc = "serp_tasks" /\ tasks_read < MaxTasks
    /\ CASE shape = "no_result_key" ->
              Raise("KeyError: result") /\ UNCHANGED provider_calls
         [] shape = "items_missing" ->
              Raise("KeyError: items") /\ UNCHANGED provider_calls
         [] shape = "items_null" ->
              Raise("TypeError: items") /\ UNCHANGED provider_calls
         [] shape = "result_empty" ->
              /\ tasks_read' = tasks_read + 1
              /\ UNCHANGED <<serpFrame, all_domain_traffic, total_market_traffic,
                             detailed_serp_data, i, items_read, keyword, volume,
                             results_df, pc, raised, provider_calls, processed>>
         [] shape = "items" ->
              /\ tasks_read' = tasks_read + 1
              /\ keyword' = kw /\ volume' = DictGet(volume_map, kw, 0)
              /\ pc' = "serp_items" /\ items_read' = 0
              /\ UNCHANGED <<serpFrame, all_domain_traffic, total_market_traffic,
                             detailed_serp_data, i, results_df, raised,
                             provider_calls, processed>>

\* for item in result['items']: one item is read; an organic item of a
\* domain that is not excluded adds a detail row and its traffic
ReadItem(item) ==
    /\ pc = "serp_items" /\ Len(processed) < MaxItems
    /\ processed' = Append(processed, [keyword |-> keyword, item |-> item])
    /\ IF Eligible(item, neg_doms)
       THEN /\ detailed_serp_data' =
                  AppendDetail(detailed_serp_data, keyword, volume, item)
            /\ all_domain_traffic' = AddTraffic(all_domain_traffic, item.domain,
                                                Traffic(volume, item.rank_group))
            /\ total_market_traffic' =
                  total_market_traffic + Traffic(volume, item.rank_group)
       ELSE UNCHANGED <<detailed_serp_data, all_domain_traffic,
                        total_market_traffic>>
    /\ UNCHANGED <<serpFrame, i, tasks_read, items_read, keyword, volume,
                   results_df, pc, raised, provider_calls>>

\* result['items'] is exhausted
EndItems ==
    /\ pc = "serp_items"
    /\ pc' = "serp_tasks" /\ items_read' = 0
    /\ UNCHANGED <<serpFrame, all_domain_traffic, total_market_traffic,
                   detailed_serp_data, i, tasks_read, keyword, volume,
                   results_df, raised, provider_calls, processed>>

\* serp_data['tasks'] is exhausted
EndTasks ==
    /\ pc = "serp_tasks"
    /\ NextBatch
    /\ UNCHANGED <<serpFrame, all_domain_traffic, total_market_traffic,
                   detailed_serp_data, keyword, volume, results_df, raised,
                   provider_calls, processed>>

\* The loop is over: the results are stored, st.rerun() runs the script
\* again with the same widget values, and the Results section is rendered
\* from the session.
StoreResults ==
    /\ pc = "serp_loop" /\ i >= Len(keywords_list)
    /\ ss_serp_results' = Some(all_domain_traffic)
    /\ ss_total_traffic' = Some(total_market_traffic)
    /\ ss_detailed_serp_data' = Some(detailed_serp_data)
    /\ results_df' \in RenderResults(ss_serp_results', ss_total_traffic')
    /\ pc' = "idle" /\ keyword' = <<>> /\ volume' = 0
    /\ UNCHANGED <<ss_config, ss_keywords_df, kwWidgets, serpWidgets, max_cost,
                   kwLocals, total_serp_cost, keywords_list, volume_map,
                   neg_doms, all_domain_traffic, total_market_traffic,
                   detailed_serp_data, i, tasks_read, raised, button, estimate,
                   authVars, confirm_serp,
                   provider_calls, offered, observations, processed>>

BatchShapes == {"none", "no_tasks", "tasks_null", "tasks"}
TaskShapes == {"no_result_key", "result_empty", "items_missing", "items_null",
               "items"}

\* the keyword a task's result may name: the first keyword of the batch
\* that was sent, or an unknown one
TaskKeywords ==
    IF pc = "serp_tasks"
    THEN {keywords_list[i + 1], UnknownKeyword}
    ELSE {UnknownKeyword}

\* the steps of the handler after the click
SerpSteps(Items) ==
    \/ \E shape \in BatchShapes : FetchSerpBatch(shape)
    \/ \E shape \in TaskShapes, kw \in TaskKeywords : ReadTask(shape, kw)
    \/ \E item \in Items : ReadItem(item)
    \/ EndItems
    \/ EndTasks
    \/ StoreResults

\* The first analysis of a stored keyword set, the whole list at the
\* default depth under the default cost limit, the provider returning
\* anything.
NextSerp ==
    \/ \E negdom \in NegDomainTexts :
          /\ IsNone(ss_serp_results)
          /\ ClickRunSerp(negdom, Len(ValueOf(ss_keywords_df)), SERP_BASE_DEPTH,
                          DefaultMaxCost, TRUE)
    \/ SerpSteps(SerpItems)

SpecSerp == InitSerp /\ [][NextSerp]_vars

\* max_cost values for the SERP guardrail: nothing allowed, the cost of 50
\* keywords at depth 100, the default
SerpMaxCostValues == {0, 300000, DefaultMaxCost}
\* the one item the provider returns in the guardrail runs
CostRunItems == {OrganicItem(<<"b", "a">>, 2)}

\* Runs of the script over a stored keyword set at every slider position,
\* depth and cost limit, with or without confirmation, up to the first
\* analysis that stores its results.
NextSerpCost ==
    \/ \E n \in NumAnalyzeChoices(Len(ValueOf(ss_keywords_df))),
          depth \in SerpDepthOptions, mc \in SerpMaxCostValues :
          IsNone(ss_serp_results) /\ ClickRunSerp(<<>>, n, depth, mc, TRUE)
    \/ \E n \in NumAnalyzeChoices(Len(ValueOf(ss_keywords_df))),
          depth \in SerpDepthOptions, mc \in SerpMaxCostValues,
          confirm \in BOOLEAN :
          NoRunSerp(<<>>, n, depth, mc, confirm)
    \/ SerpSteps(CostRunItems)

SpecSerpCost == InitSerp /\ [][NextSerpCost]_vars

(***************************************************************************)
(* The whole session: keyword research, SERP analysis, Start New Analysis  *)
(***************************************************************************)
\* The Start New Analysis button, which the Results section offers: every
\* key of the session but 'user' and 'pass' is deleted and the script runs
\* again from the top, where it stores the config of the widgets anew; with
\* no keywords_df, step 3 and the Results section are not rendered.
StartNewAnalysis ==
    /\ pc = "idle"
    /\ ~IsNone(auth)
    /\ ~IsNone(ss_serp_results) /\ ValueOf(ss_serp_results) # <<>>
    /\ ss_keywords_df' = None /\ ss_serp_results' = None
    /\ ss_total_traffic' = None /\ ss_detailed_serp_data' = None
    /\ ss_config' = Some([max_cost |-> max_cost, fetch_limit |-> num_keywords_fetch])
    /\ results_df' = <<>> /\ raised' = "" /\ button' = "start_new_analysis"
    /\ confirm_serp' = FALSE
    /\ UNCHANGED <<estimate, authVars>>
    /\ provider_calls' = <<>> /\ offered' = {} /\ observations' = {}
    /\ processed' = <<>>
    /\ keyword_cost' = KeywordCost(use_keywords_for_keywords, use_keyword_ideas,
                                   use_autocomplete, num_keywords_fetch,
                                   seed_keyword)
    /\ seed_keywords' = <<>> /\ negatives' = <<>> /\ all_keywords' = <<>>
    /\ idx' = 0 /\ items_read' = 0
    /\ total_serp_cost' = 0 /\ keywords_list' = <<>> /\ volume_map' = <<>>
    /\ neg_doms' = <<>> /\ all_domain_traffic' = <<>>
    /\ total_market_traffic' = 0 /\ detailed_serp_data' = <<>> /\ i' = 0
    /\ tasks_read' = 0 /\ keyword' = <<>> /\ volume' = 0
    /\ UNCHANGED <<kwWidgets, serpWidgets, max_cost, pc>>

\* what the providers return in the session runs
SessionKwItems ==
    {[keyword |-> <<"b">>, search_volume |-> MIN_VOLUME],
     [keyword |-> <<"A", "b">>, search_volume |-> 2 * MIN_VOLUME]}
\* contents of the "Seed Keywords" text area in the session runs: " ", "a"
SessionSeedTexts == {<<" ">>, <<"a">>}

\* Any sequence of keyword fetches, valid or not, SERP analyses of the whole
\* stored list and new starts.
NextSession ==
    \/ \E seed \in SessionSeedTexts, kfk \in BOOLEAN, auto \in BOOLEAN :
          ClickFetchKeywords(seed, <<>>, kfk, FALSE, auto,
                             DefaultFetchLimit, DefaultMaxCost)
    \/ KeywordSteps(SessionKwItems, {<<"b">>}, {TRUE})
    \/ ClickRunSerp(<<>>, Len(ValueOf(ss_keywords_df)), SERP_BASE_DEPTH,
                    DefaultMaxCost, TRUE)
    \/ SerpSteps(CostRunItems)
    \/ StartNewAnalysis

SpecSession == Init /\ [][NextSession]_vars

(***************************************************************************)
(* Credentials                                                             *)
(***************************************************************************)
\* The script runs after the credential inputs changed, no button pressed.
\* Without both credentials it returns before the configuration panel:
\* no config is stored, no button or checkbox is rendered, nothing is
\* fetched.  With them the page is rendered from the session.
EnterCredentials(user, pass) ==
    /\ pc = "idle"
    /\ dfs_user' = user /\ dfs_pass' = pass
    /\ button' = "" /\ raised' = ""
    /\ provider_calls' = <<>> /\ offered' = {} /\ observations' = {}
    /\ processed' = <<>>
    /\ seed_keywords' = <<>> /\ negatives' = <<>> /\ all_keywords' = <<>>
    /\ idx' = 0 /\ items_read' = 0
    /\ total_serp_cost' = 0 /\ keywords_list' = <<>> /\ volume_map' = <<>>
    /\ neg_doms' = <<>> /\ all_domain_traffic' = <<>>
    /\ total_market_traffic' = 0 /\ detailed_serp_data' = <<>> /\ i' = 0
    /\ tasks_read' = 0 /\ keyword' = <<>> /\ volume' = 0
    /\ IF IsNone(get_auth(user, pass))
       THEN /\ results_df' = <<>> /\ confirm_serp' = FALSE
            /\ keyword_cost' = 0
            /\ UNCHANGED ss_config
       ELSE /\ results_df' \in RenderResults(ss_serp_results, ss_total_traffic)
            /\ keyword_cost' = KeywordCost(use_keywords_for_keywords,
                                           use_keyword_ideas, use_autocomplete,
                                           num_keywords_fetch, seed_keyword)
            /\ ss_config' = Some([max_cost |-> max_cost,
                                  fetch_limit |-> num_keywords_fetch])
            /\ UNCHANGED confirm_serp
    /\ UNCHANGED <<ss_keywords_df, ss_serp_results, ss_total_traffic,
                   ss_detailed_serp_data, kwWidgets, serpWidgets, max_cost,
                   pc, estimate>>

\* contents of the credential inputs: empty or not
UserTexts == {<<>>, <<"u">>}
PassTexts == {<<>>, <<"p">>}

\* A session that starts with no credentials.
InitAuth ==
    /\ dfs_user = <<>> /\ dfs_pass = <<>> /\ confirm_serp = FALSE
    /\ ss_keywords_df = None /\ ss_config = None /\ ss_serp_results = None
    /\ ss_total_traffic = None /\ ss_detailed_serp_data = None
    /\ InitPage

\* Credentials entered and removed at any idle moment, keyword fetches,
\* runs of the page with or without confirmation, SERP analyses and new
\* starts.
NextAuth ==
    \/ \E user \in UserTexts, pass \in PassTexts : EnterCredentials(user, pass)
    \/ \E auto \in BOOLEAN :
          ClickFetchKeywords(<<"a">>, <<>>, TRUE, FALSE, auto,
                             DefaultFetchLimit, DefaultMaxCost)
    \/ KeywordSteps(SessionKwItems, {<<"b">>}, {TRUE})
    \/ ClickRunSerp(<<>>, Len(ValueOf(ss_keywords_df)), SERP_BASE_DEPTH,
                    DefaultMaxCost, TRUE)
    \/ \E mc \in {0, DefaultMaxCost}, confirm \in BOOLEAN :
          NoRunSerp(<<>>, Len(ValueOf(ss_keywords_df)), SERP_BASE_DEPTH,
                    mc, confirm)
    \/ SerpSteps(CostRunItems)
    \/ StartNewAnalysis

SpecAuth == InitAuth /\ [][NextAuth]_vars

(***************************************************************************)
(* The CTR lookup over every rank                                          *)
(***************************************************************************)
\* rank_group values: every position of the curve, one below, one above
CtrRanks == 0..21
CtrItems == {OrganicItem(<<"b", "a">>, r) : r \in CtrRanks}

\* An analysis of a stored set of two keywords whose items name one domain
\* at any rank.
InitCtr == ss_keywords_df = Some(SerpFrame(2)) /\ InitRest

NextCtr ==
    \/ /\ IsNone(ss_serp_results)
       /\ ClickRunSerp(<<>>, Len(ValueOf(ss_keywords_df)), SERP_BASE_DEPTH,
                       DefaultMaxCost, TRUE)
    \/ SerpSteps(CtrItems)

SpecCtr == InitCtr /\ [][NextCtr]_vars

(***************************************************************************)
(* The cost estimate called on its own                                     *)
(***************************************************************************)
\* arguments of estimate_total_cost: fetch counts around the request size,
\* analysis counts around the batch size
EstimateFetchCounts == {0, 1, 699, 700, 701, 1000, 1400, 1401}
EstimateAnalyzeCounts == {0, 1, 10, 50, 51, 100}

\* a call of estimate_total_cost
CallEstimateTotalCost(fetch, analyze, depth) ==
    /\ estimate' = Some([fetch |-> fetch, analyze |-> analyze, depth |-> depth,
                         costs |-> estimate_total_cost(fetch, analyze, depth)])
    /\ UNCHANGED <<authVars, confirm_serp, sessVars, kwWidgets, serpWidgets,
                   max_cost, kwLocals,
                   serpLocals, results_df, pc, raised, button, provider_calls,
                   offered, observations, processed>>

NextEstimate ==
    \E fetch \in EstimateFetchCounts, analyze \in EstimateAnalyzeCounts,
       depth \in SerpDepthOptions : CallEstimateTotalCost(fetch, analyze, depth)

SpecEstimate == Init /\ [][NextEstimate]_vars

(***************************************************************************)
(* The report of a stored analysis                                         *)
(***************************************************************************)
\* domains of a stored analysis
MaxDomains == 6
\* the rank of the one item of each domain: traffic 10 x 0.30, 10 x 0.10, 0
ReportRanks == {1, 3, 21}

ReportDomain(j) == <<"d">> \o Digits(j)

\* the items an analysis has read: one organic item per domain, for the
\* second keyword of the stored set
ReportItems(ranks) ==
    [j \in 1..Len(ranks) |-> OrganicItem(ReportDomain(j), ranks[j])]

RECURSIVE AggregateItems(_, _, _)
AggregateItems(items, d, vol) ==
    IF items = <<>> THEN d
    ELSE AggregateItems(Tail(items),
                        AddTraffic(d, Head(items).domain,
                                   Traffic(vol, Head(items).rank_group)),
                        vol)

\* A session in which an analysis of two keywords has stored the traffic of
\* up to MaxDomains domains, its total and its detail rows, before the
\* script runs again.
InitReport ==
    /\ ss_keywords_df = Some(SerpFrame(2))
    /\ confirm_serp = TRUE
    /\ ss_config = Some([max_cost |-> DefaultMaxCost, fetch_limit |-> DefaultFetchLimit])
    /\ \E k \in 1..MaxDomains : \E ranks \in [1..k -> ReportRanks] :
          LET items == ReportItems(ranks)
              kw == SerpFrame(2)[2]
              traffic_data == AggregateItems(items, <<>>, kw.search_volume)
          IN  /\ ss_serp_results = Some(traffic_data)
              /\ ss_total_traffic = Some(DictSumOf(traffic_data))
              /\ ss_detailed_serp_data =
                    Some([j \in 1..k |->
                             DetailRow(kw.keyword, kw.search_volume, items[j])])
    /\ InitScript

\* The run that st.rerun() starts after the results were stored: no button
\* is pressed and the Results section is rendered.
NextReport ==
    \E confirm \in BOOLEAN :
        /\ results_df = <<>>
        /\ NoRunSerp(<<>>, Len(ValueOf(ss_keywords_df)), SERP_BASE_DEPTH,
                     IF confirm THEN 0 ELSE DefaultMaxCost, confirm)

SpecReport == InitReport /\ [][NextReport]_vars

(***************************************************************************)
(* Claims about the SERP analysis                                          *)
(***************************************************************************)
SerpCallIssued ==
    \E k \in 1..Len(provider_calls) : provider_calls[k].fn = "fetch_serp_batch"

RECURSIVE SentKeywords(_)
SentKeywords(calls) ==
    IF calls = <<>> THEN 0 ELSE Len(Head(calls).arg) + SentKeywords(Tail(calls))

\* C2: SERP-fetch guardrail.  In a run that issues a fetch_serp_batch call
\* the SERP cost of the number of keywords and the depth selected in that
\* run, num_keywords_analyze x 0.0006 x depth / 10, does not exceed the
\* max_cost stored in config (a cost equal to it is allowed), and the
\* keywords sent over all batches are no more than num_keywords_analyze.
C2_SerpBlockedOverBudget ==
    SerpCallIssued =>
        /\ ~IsNone(ss_config)
        /\ num_keywords_analyze * SERP_BASE_COST * serp_depth
              <= ValueOf(ss_config).max_cost * SERP_BASE_DEPTH
        /\ SentKeywords(provider_calls) <= num_keywords_analyze

\* an analysis of 50 keywords at depth 100 costing exactly the limit of
\* 0.30 has sent its one batch of 50 keywords and stored its results
C2_Witness ==
    /\ pc = "idle" /\ ~IsNone(ss_serp_results) /\ SerpCallIssued
    /\ num_keywords_analyze = 50 /\ serp_depth = 100
    /\ ValueOf(ss_config).max_cost = 300000
    /\ total_serp_cost = ValueOf(ss_config).max_cost
    /\ SentKeywords(provider_calls) = 50

\* domain equals nd, or ends with "." followed by nd
ExactOrDotSuffix(domain, nd) ==
    \/ domain = nd
    \/ /\ Len(domain) > Len(nd)
       /\ SubSeq(domain, Len(domain) - Len(nd), Len(domain)) = <<".">> \o nd

MatchesNegativeDomain(domain) ==
    \E k \in 1..Len(neg_doms) : ExactOrDotSuffix(domain, neg_doms[k])

\* the processed organic items whose domain, as received, matches no
\* negative domain
KeptItems ==
    SelectSeq(processed, LAMBDA p : /\ p.item.type = "organic"
                                    /\ ~MatchesNegativeDomain(p.item.domain))

\* C5: domain exclusion is exact or by dot-suffix only.  The detail rows
\* are, in order, the processed organic items whose domain neither equals a
\* negative domain nor ends with "." followed by one: such an item is
\* excluded, and an item whose domain merely ends with or contains the
\* letters of a negative domain is kept.
C5_DomainExclusionExactOrDotSuffix ==
    /\ Len(detailed_serp_data) = Len(KeptItems)
    /\ \A k \in 1..Len(detailed_serp_data) :
          /\ detailed_serp_data[k].domain = KeptItems[k].item.domain
          /\ detailed_serp_data[k].keyword = KeptItems[k].keyword
          /\ detailed_serp_data[k].position = KeptItems[k].item.rank_group

\* with negative domain "a", an analysis has read an item of "b.a" and an
\* item of "ba" and stored one detail row, for "ba"
C5_Witness ==
    /\ pc = "idle" /\ ~IsNone(ss_detailed_serp_data) /\ neg_doms = << <<"a">> >>
    /\ \E j \in 1..Len(processed) : processed[j].item.domain = <<"b", ".", "a">>
    /\ \E j \in 1..Len(processed) : /\ processed[j].item.domain = <<"b", "a">>
                                    /\ processed[j].item.type = "organic"
    /\ Len(ValueOf(ss_detailed_serp_data)) = 1
    /\ ValueOf(ss_detailed_serp_data)[1].domain = <<"b", "a">>

\* C6: domain exclusion is case-insensitive on both sides.  No detail row
\* names a domain whose lower-cased form equals a negative domain or ends
\* with "." followed by one.
C6_UpperCaseDomainExcluded ==
    \A k \in 1..Len(detailed_serp_data) :
        ~MatchesNegativeDomain(lower(detailed_serp_data[k].domain))

\* the volume of a keyword in the rows sent for analysis, 0 when absent
VolumeOfKeyword(kw) ==
    LET df == head(ValueOf(ss_keywords_df), num_keywords_analyze)
        rows == {j \in 1..Len(df) : df[j].keyword = kw}
    IN  IF rows = {} THEN 0 ELSE df[CHOOSE j \in rows : TRUE].search_volume

ContributesTo(p, d) ==
    /\ p.item.type = "organic"
    /\ ~MatchesNegativeDomain(p.item.domain)
    /\ p.item.domain = d

RECURSIVE ExpectedTraffic(_, _)
ExpectedTraffic(items, d) ==
    IF items = <<>> THEN 0
    ELSE (IF ContributesTo(Head(items), d)
          THEN VolumeOfKeyword(Head(items).keyword)
                  * CtrGet(Head(items).item.rank_group)
          ELSE 0) + ExpectedTraffic(Tail(items), d)

RECURSIVE DictSum(_)
DictSum(d) == IF d = <<>> THEN 0 ELSE Head(d).val + DictSum(Tail(d))

\* C7: traffic accounting.  After any sequence of processed SERP items,
\* over any batches, failed ones included, every domain_traffic[d] is >= 0
\* and is the sum of volume(keyword) x CTR(rank_group) over exactly the
\* processed items that are organic, not excluded and name d, the volume of
\* a keyword absent from the volume map being 0; every such item's domain
\* has an entry; the entries sum to total_market_traffic; and what is stored
\* at the end is these values.
C7_TrafficAccounting ==
    /\ \A k \in 1..Len(all_domain_traffic) :
          /\ all_domain_traffic[k].val >= 0
          /\ all_domain_traffic[k].val =
                ExpectedTraffic(processed, all_domain_traffic[k].key)
    /\ \A j \in 1..Len(processed) :
          ContributesTo(processed[j], processed[j].item.domain)
             => HasKey(all_domain_traffic, processed[j].item.domain)
    /\ DictSum(all_domain_traffic) = total_market_traffic
    /\ (pc = "idle" /\ ~IsNone(ss_serp_results)) =>
          /\ ValueOf(ss_serp_results) = all_domain_traffic
          /\ ValueOf(ss_total_traffic) = total_market_traffic

\* an analysis of two batches whose first fetch failed has read two items
\* of "ba" for the keyword of the second batch, at ranks 2 and 3, and
\* stored 10 x 0.15 + 10 x 0.10 for it
C7_Witness ==
    /\ pc = "idle" /\ ~IsNone(ss_serp_results)
    /\ Len(provider_calls) = 2 /\ provider_calls[1].response = "none"
    /\ Len(processed) = 2
    /\ processed[1].item.rank_group # processed[2].item.rank_group
    /\ ValueOf(ss_serp_results) = << [key |-> <<"b", "a">>, val |-> 2500] >>
    /\ ValueOf(ss_total_traffic) = 2500

\* C8: zero-total handling.  When the total_market_traffic stored by an
\* analysis is 0, the report has no rows (and so no undefined share).
C8_ZeroTotalEmptyReport ==
    (pc = "idle" /\ ~IsNone(ss_total_traffic) /\ ValueOf(ss_total_traffic) = 0)
        => results_df = <<>>

RECURSIVE SumShareNum(_)
SumShareNum(rows) ==
    IF rows = <<>> THEN 0 ELSE Head(rows).Share.num + SumShareNum(Tail(rows))

\* C9: share of voice.  In every report built with total_market_traffic > 0
\* there is one row per stored domain, each row's share is
\* 100 x estimated_traffic / total_market_traffic, and the shares sum to 100.
C9_ShareOfVoice ==
    (pc = "idle" /\ ~IsNone(ss_total_traffic) /\ ValueOf(ss_total_traffic) > 0) =>
        LET total == ValueOf(ss_total_traffic)
        IN  /\ Len(results_df) = Len(ValueOf(ss_serp_results))
            /\ \A k \in 1..Len(results_df) :
                  /\ results_df[k].EstimatedTraffic =
                        DictGet(ValueOf(ss_serp_results), results_df[k].Domain, 0)
                  /\ results_df[k].Share.den = total
                  /\ results_df[k].Share.num = 100 * results_df[k].EstimatedTraffic
            /\ SumShareNum(results_df) = 100 * total

\* a report of two domains with shares 60 and 40
C9_Witness ==
    /\ pc = "idle" /\ ~IsNone(ss_total_traffic) /\ Len(results_df) = 2
    /\ results_df[1].Share.num = 60 * results_df[1].Share.den
    /\ results_df[2].Share.num = 40 * results_df[2].Share.den
    /\ results_df[1].Share.den > 0

\* C10: batch failure isolation.  A task without result, or a result whose
\* items are missing or null, lets no exception escape the batch loop.
C10_NoExceptionEscapes ==
    raised \notin {"KeyError: result", "KeyError: items", "TypeError: items"}

(***************************************************************************)
(* Claims about the session                                                *)
(***************************************************************************)
\* the seed text has no character but blanks and commas, or no source is on
NoSeedOrNoSource ==
    \/ \A k \in 1..Len(seed_keyword) : seed_keyword[k] \in {" ", ","}
    \/ ~(use_keywords_for_keywords \/ use_keyword_ideas \/ use_autocomplete)

\* C11: invalid configuration is rejected before discovery.  In a run of
\* the Fetch Keywords action with zero non-blank seed keywords or with no
\* discovery source enabled, every step leaves the run without a provider
\* call and leaves the session's keyword set, domain traffic, total and
\* detail rows as they were.
C11_InvalidConfigurationRejected ==
    [][(button' = "fetch_keywords" /\ NoSeedOrNoSource')
          => /\ provider_calls' = <<>>
             /\ UNCHANGED <<ss_keywords_df, ss_serp_results, ss_total_traffic,
                            ss_detailed_serp_data>>]_vars

\* Fetch Keywords has run with a blank seed text on a session that holds a
\* keyword set and the results of an analysis
C11_Witness ==
    /\ pc = "idle" /\ button = "fetch_keywords"
    /\ seed_keyword = <<" ">> /\ use_keywords_for_keywords
    /\ ~IsNone(ss_keywords_df)
    /\ ~IsNone(ss_serp_results) /\ ValueOf(ss_serp_results) # <<>>
    /\ provider_calls = <<>>

\* C12: session replacement is wholesale.  Whenever the stored keyword set
\* is replaced or discarded, by a successful keyword fetch or by Start New
\* Analysis, the domain traffic, the total traffic and the detail rows of
\* the previous analysis are discarded with it, so that none of them is
\* held alongside the new keyword set.
C12_SessionReplacedWholesale ==
    [][ss_keywords_df' # ss_keywords_df
          => /\ IsNone(ss_serp_results')
             /\ IsNone(ss_total_traffic')
             /\ IsNone(ss_detailed_serp_data')]_vars

\* the stored keyword set has pairwise distinct texts, is ordered by
\* search_volume non-increasing and holds volumes >= 10 or exactly 0
KeywordSetShape(df) ==
    /\ \A j, k \in 1..Len(df) : j # k => df[j].keyword # df[k].keyword
    /\ \A k \in 1..(Len(df) - 1) : df[k].search_volume >= df[k + 1].search_volume
    /\ \A k \in 1..Len(df) : df[k].search_volume >= 10 \/ df[k].search_volume = 0

\* a fetch has just stored the keyword set
FetchJustStored ==
    /\ pc = "idle" /\ button = "fetch_keywords" /\ all_keywords # <<>>
    /\ ~IsNone(ss_keywords_df)

C14_CtrModel ==
    /\ \A k \in 1..Len(detailed_serp_data) :
          LET row == detailed_serp_data[k]
          IN  /\ row.position = 1 => row.ctr = 300
              /\ row.position \in {19, 20} => row.ctr = 1
              /\ row.position \in 1..20 => row.ctr > 0
              /\ row.position \notin 1..20 =>
                    row.ctr = 0 /\ row.estimated_traffic = 0
              /\ row.estimated_traffic = row.search_volume * row.ctr
    /\ \A j, k \in 1..Len(detailed_serp_data) :
          LET a == detailed_serp_data[j]
              b == detailed_serp_data[k]
          IN  /\ a.position = b.position => a.ctr = b.ctr
              /\ (a.position \in 1..20 /\ b.position \in 1..20
                    /\ a.position <= b.position) => a.ctr >= b.ctr

\* an analysis has stored a row at rank 20 with traffic 20 x 0.001 and a
\* row at rank 21 with no traffic
C14_Witness ==
    /\ pc = "idle" /\ ~IsNone(ss_detailed_serp_data)
    /\ Len(ValueOf(ss_detailed_serp_data)) = 2
    /\ ValueOf(ss_detailed_serp_data)[1].position = 20
    /\ ValueOf(ss_detailed_serp_data)[1].estimated_traffic = 20
    /\ ValueOf(ss_detailed_serp_data)[2].position = 21
    /\ ValueOf(ss_detailed_serp_data)[2].search_volume = 20
    /\ ValueOf(ss_detailed_serp_data)[2].estimated_traffic = 0
    /\ ValueOf(ss_total_traffic) = 20

(***************************************************************************)
(* Claims about the cost estimate                                          *)
(***************************************************************************)
\* the least number of requests of 700 keywords that carry n keywords
RequestsFor(n) ==
    CHOOSE k \in 0..n : 700 * k >= n /\ (k = 0 \/ 700 * (k - 1) < n)

\* C15: cost formula.  For every (num_keywords_to_fetch,
\* num_keywords_to_analyze, serp_depth) with depth in {10, 20, 50, 100},
\* estimate_total_cost returns keyword_cost = ceil(fetch / 700) x 0.01,
\* serp_cost = analyze x 0.0006 x depth / 10 and total = keyword_cost +
\* serp_cost, all >= 0; for (700, 100, 10) these are 0.01, 0.06 and 0.07.
C15_CostFormula ==
    ~IsNone(estimate) =>
        LET e == ValueOf(estimate)
        IN  /\ e.costs.keyword_cost = RequestsFor(e.fetch) * 10000
            /\ e.costs.serp_cost * 10 = e.analyze * 600 * e.depth
            /\ e.costs.total = e.costs.keyword_cost + e.costs.serp_cost
            /\ e.costs.keyword_cost >= 0 /\ e.costs.serp_cost >= 0
            /\ e.costs.total >= 0
            /\ (e.fetch = 700 /\ e.analyze = 100 /\ e.depth = 10) =>
                  /\ e.costs.keyword_cost = 10000
                  /\ e.costs.serp_cost = 60000
                  /\ e.costs.total = 70000

\* estimate_total_cost(700, 100, 10) has returned a total of 0.07
C15_Witness ==
    /\ ~IsNone(estimate)
    /\ ValueOf(estimate).fetch = 700 /\ ValueOf(estimate).analyze = 100
    /\ ValueOf(estimate).depth = 10
    /\ ValueOf(estimate).costs.total = 70000

EnabledSources ==
    (IF use_keywords_for_keywords THEN 1 ELSE 0)
  + (IF use_keyword_ideas THEN 1 ELSE 0)
  + (IF use_autocomplete THEN 1 ELSE 0)

\* C16: per-source billing.  The estimated keyword cost of a run is
\* ceil(num_keywords_fetch / 700) x 0.01 for every enabled discovery
\* source, and the estimated total of a run that analyses SERPs is that sum
\* plus the SERP cost total.
C16_PerSourceBilling ==
    /\ button = "fetch_keywords" =>
          costs.keyword_cost =
              EnabledSources * RequestsFor(num_keywords_fetch) * 10000
    /\ button = "run_serp_analysis" =>
          costs.total = costs.keyword_cost + total_serp_cost

\* the summed share of the first three rows of the rendered table, as
\* hundredths of the total traffic: the shares are 100 * traffic / total
Top3Traffic ==
    LET n == IF Len(results_df) < 3 THEN Len(results_df) ELSE 3
        T[k \in 0..n] ==
            IF k = 0 THEN 0 ELSE T[k - 1] + results_df[k].EstimatedTraffic
    IN  T[n]

ReportTotal == ValueOf(ss_total_traffic)

\* C17: in every rendered report the market type is Monopolistic exactly when
\* the summed share of the first three rows of the sorted table is strictly
\* greater than 75, Concentrated exactly when it is greater than 50 and at
\* most 75, and Fragmented otherwise; a top-3 share of exactly 75 is
\* Concentrated and of exactly 50 is Fragmented.
C17_MarketType ==
    results_df # <<>> =>
        LET top3 == 100 * Top3Traffic
            total == ReportTotal
        IN  /\ market_type \in {"Monopolistic", "Concentrated", "Fragmented"}
            /\ total > 0 =>
                  /\ market_type = "Monopolistic" <=> top3 > 75 * total
                  /\ market_type = "Concentrated"
                        <=> (top3 > 50 * total /\ top3 <= 75 * total)
                  /\ top3 = 75 * total => market_type = "Concentrated"
                  /\ top3 = 50 * total => market_type = "Fragmented"
            /\ total = 0 => market_type = "Fragmented"

\* a report of four domains of equal traffic: the first three hold exactly 75
C17_Witness ==
    /\ Len(results_df) = 4
    /\ ReportTotal > 0
    /\ 100 * Top3Traffic = 75 * ReportTotal
    /\ market_type = "Concentrated"

\* a report of six domains of equal traffic: the first three hold exactly 50
C17_WitnessHalf ==
    /\ Len(results_df) = 6
    /\ ReportTotal > 0
    /\ 100 * Top3Traffic = 50 * ReportTotal
    /\ market_type = "Fragmented"

\* the call just issued failed
FailedCallIssued ==
    /\ Len(provider_calls') = Len(provider_calls) + 1
    /\ provider_calls'[Len(provider_calls')].fn \in DiscoveryFns
    /\ provider_calls'[Len(provider_calls')].response = "error"

FailedCalls ==
    {k \in 1..Len(provider_calls) :
        /\ provider_calls[k].fn \in DiscoveryFns
        /\ provider_calls[k].response = "error"}

\* a valid fetch has run to its end
FetchDone ==
    /\ pc = "idle" /\ button = "fetch_keywords"
    /\ seed_keywords # <<>> /\ EnabledSources > 0

\* the merged keyword set is the merge of the accepted observations
MergeOfObservations ==
    /\ Keys(all_keywords) = {o.keyword : o \in observations}
    /\ \A k \in 1..Len(all_keywords) :
          all_keywords[k].val = SetMax(ObservedVolumes(all_keywords[k].key))

\* C18: a discovery call that fails for one seed and source contributes no
\* observation and does not end the fetch: the merged set is unchanged by
\* it, no exception leaves the handler and the next source follows; every
\* enabled source is still called for every seed, and the keyword set at
\* the end of the fetch, and the frame stored from it, is the merge of the
\* observations of the calls that succeeded.
C18_DiscoverySourceIsolation ==
    /\ [][FailedCallIssued =>
             /\ all_keywords' = all_keywords
             /\ observations' = observations /\ offered' = offered
             /\ raised' = "" /\ pc' \in {"ideas", "auto", "seed_done"}
             /\ UNCHANGED sessVars]_vars
    /\ [](FetchDone =>
             /\ Len(provider_calls) = Len(seed_keywords) * EnabledSources
             /\ raised = ""
             /\ MergeOfObservations
             /\ all_keywords # <<>> =>
                   /\ ~IsNone(ss_keywords_df)
                   /\ {ValueOf(ss_keywords_df)[k] :
                          k \in 1..Len(ValueOf(ss_keywords_df))}
                      = {[keyword |-> all_keywords[k].key,
                          search_volume |-> all_keywords[k].val] :
                            k \in 1..Len(all_keywords)})

\* a fetch over two seeds and three sources in which the first call failed
\* and a later one did not, and the keywords of the later ones were stored
C18_Witness ==
    /\ FetchDone /\ Len(seed_keywords) = 2 /\ EnabledSources = 3
    /\ 1 \in FailedCalls /\ FailedCalls # 1..Len(provider_calls)
    /\ Len(provider_calls) = 6
    /\ ~IsNone(ss_keywords_df) /\ Len(ValueOf(ss_keywords_df)) = 2

\* the row of a processed item that is organic and not excluded
RowOf(p) ==
    LET vol == VolumeOfKeyword(p.keyword)
        rank == p.item.rank_group
        ctr == IF rank \in 1..20 THEN CTR_CURVE[rank] ELSE 0
    IN  [keyword |-> p.keyword, search_volume |-> vol,
         domain |-> p.item.domain, position |-> rank, ctr |-> ctr,
         estimated_traffic |-> vol * ctr]

\* C19: detail export completeness.  The detail rows are, one for one and in
\* order, the rows of the processed SERP items that are organic and not
\* domain-excluded, the items of zero traffic (rank outside 1..20, or volume
\* 0) included; no other row exists, and these rows are what the analysis
\* stores for the export.
C19_DetailExportComplete ==
    /\ detailed_serp_data = [k \in 1..Len(KeptItems) |-> RowOf(KeptItems[k])]
    /\ (pc = "idle" /\ button = "run_serp_analysis" /\ raised = ""
          /\ ~IsNone(ss_serp_results))
        => ss_detailed_serp_data = Some(detailed_serp_data)

\* an analysis has read an item at rank 21, an item for a keyword of no
\* known volume and stored a row of zero traffic for each
C19_Witness ==
    /\ pc = "idle" /\ button = "run_serp_analysis"
    /\ ~IsNone(ss_detailed_serp_data)
    /\ Len(processed) = 2 /\ Len(ValueOf(ss_detailed_serp_data)) = 2
    /\ \E j, k \in 1..2 :
          /\ ValueOf(ss_detailed_serp_data)[j].position = 21
          /\ ValueOf(ss_detailed_serp_data)[j].search_volume > 0
          /\ ValueOf(ss_detailed_serp_data)[j].estimated_traffic = 0
          /\ ValueOf(ss_detailed_serp_data)[k].search_volume = 0
          /\ ValueOf(ss_detailed_serp_data)[k].ctr > 0
          /\ ValueOf(ss_detailed_serp_data)[k].estimated_traffic = 0

\* an analysis has read a paid item and an item of an excluded domain and
\* stored no row
C19_WitnessNoRow ==
    /\ pc = "idle" /\ button = "run_serp_analysis"
    /\ ~IsNone(ss_detailed_serp_data)
    /\ ValueOf(ss_detailed_serp_data) = <<>>
    /\ \E j, k \in 1..Len(processed) :
          /\ processed[j].item.type # "organic"
          /\ processed[k].item.type = "organic"
          /\ MatchesNegativeDomain(processed[k].item.domain)

\* the keywords of the k-th of the batches of 50 of the selected keywords
KthBatch(k) ==
    SubSeq(keywords_list, 50 * (k - 1) + 1,
           IF 50 * k < Len(keywords_list) THEN 50 * k ELSE Len(keywords_list))

\* C20: batching.  An analysis of n selected keywords sends its keywords in
\* order, in batches of at most 50, one fetch_serp_batch call per batch and
\* none twice, whatever the earlier responses were; when the run is over it
\* has issued exactly ceil(n / 50) calls, every selected keyword has been
\* sent in exactly one of them, and the results are stored.
C20_Batching ==
    button = "run_serp_analysis" =>
        LET n == Len(keywords_list)
            batches == (n + 49) \div 50
        IN  /\ Len(provider_calls) <= batches
            /\ \A k \in 1..Len(provider_calls) :
                  /\ provider_calls[k].fn = "fetch_serp_batch"
                  /\ provider_calls[k].arg = KthBatch(k)
                  /\ Len(provider_calls[k].arg) \in 1..50
            /\ pc = "idle" =>
                  /\ Len(provider_calls) = batches
                  /\ SentKeywords(provider_calls) = n
                  /\ ss_serp_results = Some(all_domain_traffic)
                  /\ ss_total_traffic = Some(total_market_traffic)

\* the part of C20 that the code keeps in every run: the calls are the
\* batches of 50 in keyword order, none sent twice, and a run that ends
\* without an exception has sent them all and stored its results
C20_BatchingUnlessRaised ==
    button = "run_serp_analysis" =>
        LET n == Len(keywords_list)
            batches == (n + 49) \div 50
        IN  /\ Len(provider_calls) <= batches
            /\ \A k \in 1..Len(provider_calls) :
                  /\ provider_calls[k].fn = "fetch_serp_batch"
                  /\ provider_calls[k].arg = KthBatch(k)
                  /\ Len(provider_calls[k].arg) \in 1..50
            /\ (pc = "idle" /\ raised = "") =>
                  /\ Len(provider_calls) = batches
                  /\ SentKeywords(provider_calls) = n
                  /\ ss_serp_results = Some(all_domain_traffic)
                  /\ ss_total_traffic = Some(total_market_traffic)

\* an analysis of 51 keywords whose first batch failed has sent the second
\* batch, of one keyword, and stored its results
C20_TwoBatches ==
    /\ pc = "idle" /\ button = "run_serp_analysis" /\ raised = ""
    /\ Len(keywords_list) = 51 /\ Len(provider_calls) = 2
    /\ provider_calls[1].response = "none"
    /\ Len(provider_calls[1].arg) = 50 /\ Len(provider_calls[2].arg) = 1
    /\ ~IsNone(ss_serp_results)

\* the position at which a domain was first encountered during aggregation:
\* its position in the stored traffic mapping, which keeps insertion order
FirstEncountered(d) ==
    CHOOSE k \in 1..Len(ValueOf(ss_serp_results)) :
        ValueOf(ss_serp_results)[k].key = d

\* the rendered table has one row per domain, ranked 1..n, traffic
\* non-increasing
RankedByTraffic ==
    /\ Len(results_df) = Len(ValueOf(ss_serp_results))
    /\ {results_df[k].Domain : k \in 1..Len(results_df)}
          = Keys(ValueOf(ss_serp_results))
    /\ \A k \in 1..Len(results_df) :
          /\ results_df[k].Rank = k
          /\ results_df[k].EstimatedTraffic
                = DictGet(ValueOf(ss_serp_results), results_df[k].Domain, 0)
    /\ \A k \in 1..(Len(results_df) - 1) :
          results_df[k].EstimatedTraffic >= results_df[k + 1].EstimatedTraffic

\* C21: report ordering.  The rows of the market-share table are in
\* non-increasing order of estimated traffic and carry ranks 1..n in that
\* order, one row per domain; domains of equal estimated traffic appear in
\* the order in which they were first encountered during aggregation.
C21_ReportOrdering ==
    results_df # <<>> =>
        /\ RankedByTraffic
        /\ \A j, k \in 1..Len(results_df) :
              (j < k /\ results_df[j].EstimatedTraffic
                           = results_df[k].EstimatedTraffic)
                 => FirstEncountered(results_df[j].Domain)
                       < FirstEncountered(results_df[k].Domain)

\* the part of C21 that every rendered table keeps: one row per domain,
\* ranks 1..n, traffic non-increasing
C21_RankedByTraffic == results_df # <<>> => RankedByTraffic

\* a rendered table of two domains of equal traffic, the domain encountered
\* second ranked first
C21_TieReordered ==
    /\ Len(results_df) = 2
    /\ results_df[1].EstimatedTraffic = results_df[2].EstimatedTraffic
    /\ results_df[1].EstimatedTraffic > 0
    /\ FirstEncountered(results_df[1].Domain) = 2

Reorderings(n) ==
    {f \in [1..n -> 1..n] : \A j, k \in 1..n : j # k => f[j] # f[k]}

\* a mapping as the set of its (key, value) pairs: equality of mappings
\* takes no account of insertion order
AsMapping(d) == {d[k] : k \in 1..Len(d)}

\* two sequences hold the same rows the same number of times
Occurrences(a, x) == Cardinality({k \in 1..Len(a) : a[k] = x})

SameMultiset(a, b) ==
    /\ Len(a) = Len(b)
    /\ \A k \in 1..Len(a) : Occurrences(a, a[k]) = Occurrences(b, a[k])

EmptyAggregate == [traffic |-> <<>>, total |-> 0, rows |-> <<>>]

\* an analysis has run to its end and stored its results
AnalysisStored ==
    /\ pc = "idle" /\ button = "run_serp_analysis" /\ raised = ""
    /\ ~IsNone(ss_serp_results)

\* C22: order independence of aggregation.  Had the items that an analysis
\* processed, within and across batches, arrived in any other order, the
\* same volume map and negative domains would have given the domain traffic
\* mapping and the total market traffic that the analysis stored, and the
\* detail rows it stored as a multiset.
C22_OrderIndependence ==
    AnalysisStored =>
        \A f \in Reorderings(Len(processed)) :
            LET reordered == [k \in 1..Len(processed) |-> processed[f[k]]]
                other == Aggregate(reordered, volume_map, neg_doms,
                                   EmptyAggregate)
            IN  /\ AsMapping(other.traffic) = AsMapping(ValueOf(ss_serp_results))
                /\ other.total = ValueOf(ss_total_traffic)
                /\ SameMultiset(other.rows, ValueOf(ss_detailed_serp_data))

\* an analysis has read two items of one domain with different traffic and
\* stored their sum; the other order of the two items gives other detail
\* rows in sequence
C22_Witness ==
    /\ pc = "idle" /\ button = "run_serp_analysis" /\ ~IsNone(ss_serp_results)
    /\ Len(processed) = 2 /\ Len(detailed_serp_data) = 2
    /\ detailed_serp_data[1].domain = detailed_serp_data[2].domain
    /\ detailed_serp_data[1].estimated_traffic
          # detailed_serp_data[2].estimated_traffic
    /\ Aggregate(<<processed[2], processed[1]>>, volume_map, neg_doms,
                 EmptyAggregate).rows # detailed_serp_data
    /\ Len(ValueOf(ss_serp_results)) = 1

\* an analysis has read items of two domains: the other order of the items
\* inserts the domains in the other order
C22_WitnessTwoDomains ==
    /\ pc = "idle" /\ button = "run_serp_analysis" /\ ~IsNone(ss_serp_results)
    /\ Len(processed) = 2 /\ Len(ValueOf(ss_serp_results)) = 2
    /\ Aggregate(<<processed[2], processed[1]>>, volume_map, neg_doms,
                 EmptyAggregate).traffic # ValueOf(ss_serp_results)

PaidFns == DiscoveryFns \cup {"fetch_serp_batch"}

PaidCallIssued ==
    \E k \in 1..Len(provider_calls) : provider_calls[k].fn \in PaidFns

\* C23: preconditions of paid calls.  In every run a keyword-discovery or
\* SERP request is issued only with both credentials non-empty; a SERP
\* request is issued only if, in addition, a keyword set is present in the
\* session and the spend-confirmation checkbox is checked in that run.
C23_PaidCallPreconditions ==
    /\ PaidCallIssued => (dfs_user # <<>> /\ dfs_pass # <<>>)
    /\ SerpCallIssued => (~IsNone(ss_keywords_df) /\ confirm_serp)

\* in a session that began without credentials, both are entered, keywords
\* are stored and a confirmed analysis has issued its SERP request
C23_Witness ==
    /\ SerpCallIssued /\ pc = "serp_loop"
    /\ dfs_user = <<"u">> /\ dfs_pass = <<"p">>
    /\ confirm_serp /\ ~IsNone(ss_keywords_df)

\* a run with the login and without the password has issued no request
C23_WitnessNoPassword ==
    /\ dfs_user # <<>> /\ dfs_pass = <<>> /\ pc = "idle"
    /\ ~IsNone(ss_keywords_df) /\ provider_calls = <<>>

\* the step that ends a keyword fetch
FetchEnds == pc = "seed_done" /\ pc' = "idle"

\* C24: result invalidation on keyword fetch.  A keyword fetch that finds at
\* least one keyword leaves no stored results and no rendered Results
\* section; the Results section is rendered only from stored results of at
\* least one domain, and results are stored anew only by a SERP analysis
\* that runs to its end, so that the section is not rendered for the new
\* keyword set before that.  A keyword fetch that finds no keyword leaves
\* the stored keyword set and the stored results as they were.
C24_ResultInvalidation ==
    /\ [](results_df # <<>> =>
             (~IsNone(ss_serp_results) /\ ValueOf(ss_serp_results) # <<>>))
    /\ [][/\ (FetchEnds /\ all_keywords # <<>>)
                => (IsNone(ss_serp_results') /\ results_df' = <<>>)
          /\ (IsNone(ss_serp_results) /\ ~IsNone(ss_serp_results'))
                => /\ pc = "serp_loop" /\ pc' = "idle"
                   /\ button = "run_serp_analysis" /\ raised' = ""
                   /\ ss_serp_results' = Some(all_domain_traffic)
          /\ (FetchEnds /\ all_keywords = <<>>)
                => UNCHANGED <<ss_keywords_df, ss_serp_results,
                               ss_total_traffic, ss_detailed_serp_data>>
          /\ (button' = "fetch_keywords" /\ ~FetchEnds)
                => UNCHANGED <<ss_keywords_df, ss_serp_results,
                               ss_total_traffic, ss_detailed_serp_data>>]_vars

\* a fetch has stored a keyword set in a session that had shown the results
\* of an earlier analysis: no results are stored and none is rendered
C24_Witness ==
    /\ pc = "idle" /\ button = "fetch_keywords" /\ all_keywords # <<>>
    /\ ~IsNone(ss_keywords_df) /\ ~IsNone(ss_total_traffic)
    /\ ValueOf(ss_total_traffic) > 0
    /\ IsNone(ss_serp_results) /\ results_df = <<>>

\* a fetch that found no keyword has ended in a session that holds the
\* results of an earlier analysis, which are rendered
C24_WitnessNothingFound ==
    /\ pc = "idle" /\ button = "fetch_keywords" /\ all_keywords = <<>>
    /\ seed_keywords # <<>> /\ provider_calls # <<>>
    /\ ~IsNone(ss_keywords_df) /\ ~IsNone(ss_serp_results)
    /\ results_df # <<>>
====
